---- MODULE Spec2Model ----
(***************************************************************************)
(* The Pomodoro session state machine of manager-app: TimerStorage         *)
(* (assets/js/timerStorage.js) and PomodoroManager (the pomodoro hook).    *)
(* Times are milliseconds, durations are minutes, as in the source.        *)
(***************************************************************************)
EXTENDS Integers, Sequences, FiniteSets, TLC

VARIABLES
    state,       \* PomodoroManager.state, the in-memory timer state
    stored,      \* localStorage['pomodoro-timer']: <<>> when absent, <<record>> otherwise
    intervalId,  \* PomodoroManager.intervalId: Null or the handle setInterval returned
    live,        \* the handles of the intervals the browser still fires
    now,         \* Date.now()
    events,      \* the emit() calls of the last operation, in order
    lastOp,      \* the last operation that ran
    clockSteps,  \* how many times the clock has moved
    storageFull, \* whether localStorage.setItem throws (quota exceeded)
    callbacks,   \* PomodoroManager.callbacks: event kind -> handlers in push order
    rows,        \* the committed rows of table todos: id -> row
    puts,        \* the PUT /api/todos requests in flight: request -> transaction
    seen,        \* the body of the last GET /api/todos response
    dropped,     \* <<kind, handler>> of the last unsubscribe that removed a
                 \* registration not made again since, <<>> when there is none
    client       \* StorageManager in the page: localStorage['todos'] and the
                 \* last saveAll and loadAll calls

\* what the operations of the timer engine leave alone
others == <<storageFull, rows, puts, seen, dropped, client>>

vars == <<state, stored, intervalId, live, now, events, lastOp, clockSteps,
          callbacks, others>>

----------------------------------------------------------------------------
(* Bounds of the exploration *)

\* completedSessions is capped in the guards of the operations that raise it
MaxSessions == 2
\* the clock moves at most this many times (ticks and idle periods together)
MaxClockSteps == 2
\* Date.now() when the page is first opened
StartTime == 1
\* the minute counts passed to setCustomDurations
CustomMinutes == {1, 2}

\* idle periods (ms) the wall clock may jump by: a second and half a second
\* short of a one-minute phase, and longer than several phases of any preset
Deltas == {59000, 59500, 4000000}

\* JavaScript null
Null == -1

\* the period of setInterval in startTimer
TickMs == 1000

----------------------------------------------------------------------------
(* TimerStorage *)

defaultState ==
    [ mode |-> "work",
      remainingMs |-> 25 * 60 * 1000,
      preset |-> "pomodoro",
      isRunning |-> FALSE,
      completedSessions |-> 0,
      lastTickAt |-> Null,
      workDuration |-> 25,
      breakDuration |-> 5,
      customWorkDuration |-> 25,
      customBreakDuration |-> 5 ]

Max(a, b) == IF a >= b THEN a ELSE b

\* { ...a, ...b }: the fields of b over those of a
Spread(a, b) ==
    [ f \in (DOMAIN a) \cup (DOMAIN b) |-> IF f \in DOMAIN b THEN b[f] ELSE a[f] ]

\* JavaScript NaN: what arithmetic on undefined (a missing field) gives
NaN == -2

\* JavaScript truthiness of a number-or-null value
Truthy(v) == v # Null /\ v # 0 /\ v # NaN

\* rec[f] read as a number; a missing field is undefined, NaN in arithmetic
Num(rec, f) == IF f \in DOMAIN rec THEN rec[f] ELSE NaN

\* rec[f] read as a condition; a missing field is undefined, which is falsy
Flag(rec, f) == f \in DOMAIN rec /\ rec[f]

\* a - b, a + b, a * b and Math.max(a, b) of JavaScript numbers
Minus(a, b) == IF a = NaN \/ b = NaN THEN NaN ELSE a - b
Plus(a, b) == IF a = NaN \/ b = NaN THEN NaN ELSE a + b
Times(a, b) == IF a = NaN \/ b = NaN THEN NaN ELSE a * b
MathMax(a, b) == IF a = NaN \/ b = NaN THEN NaN ELSE Max(a, b)

\* a storage content JSON.parse throws on
Unparseable == [unparseable |-> TRUE]

\* loadState leaving isRunning set when the phase expired while away
loadState_keepsRunning(st, t) ==
    IF st = <<>> THEN defaultState
    ELSE
      LET saved == st[1]
          reconciled ==
            IF saved.isRunning /\ Truthy(saved.lastTickAt)
            THEN LET elapsed == t - saved.lastTickAt
                     rem == Max(0, saved.remainingMs - elapsed)
                 IN  IF rem = 0
                     THEN IF saved.mode = "work"
                          THEN [saved EXCEPT
                                  !.completedSessions = @ + 1,
                                  !.mode = "break",
                                  !.remainingMs = saved.breakDuration * 60 * 1000]
                          ELSE [saved EXCEPT
                                  !.mode = "work",
                                  !.remainingMs = saved.workDuration * 60 * 1000]
                     ELSE [saved EXCEPT !.remainingMs = rem]
            ELSE saved
      IN  Spread(defaultState, reconciled)

\* loadState resuming a running record without subtracting the time away
loadState_ignoresElapsed(st, t) ==
    IF st = <<>> THEN defaultState ELSE Spread(defaultState, st[1])

\* loadState flooring at 0 without the transition to the next phase
loadState_noTransition(st, t) ==
    IF st = <<>> THEN defaultState
    ELSE
      LET saved == st[1]
          reconciled ==
            IF saved.isRunning /\ Truthy(saved.lastTickAt)
            THEN [saved EXCEPT
                    !.remainingMs = Max(0, saved.remainingMs - (t - saved.lastTickAt))]
            ELSE saved
      IN  Spread(defaultState, reconciled)

\* loadState whose inline transition gives every new phase the work duration
loadState_workDurationOnly(st, t) ==
    IF st = <<>> THEN defaultState
    ELSE
      LET saved == st[1]
          reconciled ==
            IF saved.isRunning /\ Truthy(saved.lastTickAt)
            THEN LET rem == Max(0, saved.remainingMs - (t - saved.lastTickAt))
                 IN  IF rem = 0
                     THEN Spread(saved,
                            [isRunning |-> FALSE,
                             completedSessions |->
                                 IF saved.mode = "work"
                                 THEN saved.completedSessions + 1
                                 ELSE saved.completedSessions,
                             mode |-> IF saved.mode = "work" THEN "break" ELSE "work",
                             remainingMs |-> saved.workDuration * 60 * 1000])
                     ELSE Spread(saved, [remainingMs |-> rem])
            ELSE saved
      IN  Spread(defaultState, reconciled)

\* loadState adding the time away to remainingMs instead of taking it off
loadState_addsElapsed(st, t) ==
    IF st = <<>> THEN defaultState
    ELSE IF st[1] = Unparseable THEN defaultState
    ELSE IF Flag(st[1], "isRunning") /\ Truthy(Num(st[1], "lastTickAt"))
    THEN Spread(defaultState,
           Spread(st[1], [remainingMs |->
                            Plus(Num(st[1], "remainingMs"), t - st[1].lastTickAt)]))
    ELSE Spread(defaultState, st[1])

\* loadState(): st is the storage content, t is Date.now()
loadState(st, t) ==
    IF st = <<>> THEN defaultState
    ELSE IF st[1] = Unparseable THEN defaultState
    ELSE
      LET saved == st[1]
          reconciled ==
            IF Flag(saved, "isRunning") /\ Truthy(Num(saved, "lastTickAt"))
            THEN LET elapsed == t - saved.lastTickAt
                     rem == MathMax(0, Minus(Num(saved, "remainingMs"), elapsed))
                 IN  IF rem = 0
                     THEN IF "mode" \in DOMAIN saved /\ saved.mode = "work"
                          THEN Spread(saved,
                                 [isRunning |-> FALSE,
                                  completedSessions |->
                                      Plus(Num(saved, "completedSessions"), 1),
                                  mode |-> "break",
                                  remainingMs |->
                                      Times(Num(saved, "breakDuration"), 60 * 1000)])
                          ELSE Spread(saved,
                                 [isRunning |-> FALSE,
                                  mode |-> "work",
                                  remainingMs |->
                                      Times(Num(saved, "workDuration"), 60 * 1000)])
                     ELSE Spread(saved, [remainingMs |-> rem])
            ELSE saved
      IN  Spread(defaultState, reconciled)

\* saveState writing the state verbatim, lastTickAt included
saveState_verbatim(s, t) == <<s>>

\* saveState stamping lastTickAt whether or not the timer runs
saveState_alwaysStamps(s, t) == <<Spread(s, [lastTickAt |-> t])>>

\* saveState(s): the record written to storage at time t
saveState(s, t) ==
    <<Spread(s, [lastTickAt |-> IF s.isRunning THEN t ELSE Null])>>

\* clearState(): the storage content after removeItem
clearState == <<>>

getPresets ==
    [ pomodoro |-> [workDuration |-> 25, breakDuration |-> 5],
      deepwork |-> [workDuration |-> 50, breakDuration |-> 10],
      custom   |-> [workDuration |-> 25, breakDuration |-> 5] ]

\* a || b on minute counts: 0 stands for an absent (undefined) or zero value
Or(a, b) == IF a # 0 THEN a ELSE b

\* initializeWithPreset that does not record the custom durations it is given
initializeWithPreset_customNotRecorded(presetName, customDurations) ==
    LET presets == getPresets
        preset == IF presetName \in DOMAIN presets
                  THEN presets[presetName] ELSE presets.pomodoro
        workDuration == IF presetName = "custom"
                        THEN Or(customDurations.workDuration, preset.workDuration)
                        ELSE preset.workDuration
        breakDuration == IF presetName = "custom"
                         THEN Or(customDurations.breakDuration, preset.breakDuration)
                         ELSE preset.breakDuration
    IN  Spread(defaultState,
          [ preset |-> presetName,
            workDuration |-> workDuration,
            breakDuration |-> breakDuration,
            remainingMs |-> workDuration * 60 * 1000 ])

\* initializeWithPreset(presetName, customDurations); an absent field of
\* customDurations is 0
initializeWithPreset(presetName, customDurations) ==
    LET presets == getPresets
        preset == IF presetName \in DOMAIN presets
                  THEN presets[presetName] ELSE presets.pomodoro
        workDuration == IF presetName = "custom"
                        THEN Or(customDurations.workDuration, preset.workDuration)
                        ELSE preset.workDuration
        breakDuration == IF presetName = "custom"
                         THEN Or(customDurations.breakDuration, preset.breakDuration)
                         ELSE preset.breakDuration
    IN  Spread(defaultState,
          [ preset |-> presetName,
            workDuration |-> workDuration,
            breakDuration |-> breakDuration,
            remainingMs |-> workDuration * 60 * 1000,
            customWorkDuration |->
                Or(customDurations.workDuration, defaultState.customWorkDuration),
            customBreakDuration |->
                Or(customDurations.breakDuration, defaultState.customBreakDuration) ])

\* Math.ceil(a / b) for b > 0
Ceil(a, b) == -((-a) \div b)

\* Number.prototype.toString of a non-negative integer, one character per element
RECURSIVE toString(_)
toString(n) ==
    LET digit == <<"0", "1", "2", "3", "4", "5", "6", "7", "8", "9">>[(n % 10) + 1]
    IN  IF n < 10 THEN <<digit>> ELSE toString(n \div 10) \o <<digit>>

\* String.prototype.padStart(targetLength, padString) with a one-character pad
RECURSIVE padStart(_, _, _)
padStart(str, targetLength, padString) ==
    IF Len(str) >= targetLength THEN str
    ELSE padStart(<<padString>> \o str, targetLength, padString)

\* formatTime rounding the seconds down
formatTime_floor(ms) ==
    LET totalSeconds == ms \div 1000
        minutes == totalSeconds \div 60
        seconds == totalSeconds % 60
    IN  padStart(toString(minutes), 2, "0") \o <<":">>
            \o padStart(toString(seconds), 2, "0")

\* formatTime(ms): the MM:SS text, one character per element
formatTime(ms) ==
    LET totalSeconds == Ceil(ms, 1000)
        minutes == totalSeconds \div 60
        seconds == totalSeconds % 60
    IN  padStart(toString(minutes), 2, "0") \o <<":">>
            \o padStart(toString(seconds), 2, "0")

\* the number num / den
Ratio(num, den) == [num |-> num, den |-> den]

\* getProgress(s): the percentage (0-100) as an exact fraction;
\* Math.max(0, .) and Math.min(100, .) clamp it, and 0 / 0 is NaN
getProgress(s) ==
    LET totalMs == IF s.mode = "work" THEN s.workDuration * 60 * 1000
                                      ELSE s.breakDuration * 60 * 1000
        num == (totalMs - s.remainingMs) * 100
    IN  IF totalMs = 0 /\ s.remainingMs = 0 THEN Ratio(NaN, 1)
        ELSE IF num <= 0 THEN Ratio(0, 1)
        ELSE IF num >= 100 * totalMs THEN Ratio(100, 1)
        ELSE Ratio(num, totalMs)

getNextMode(s) == IF s.mode = "work" THEN "break" ELSE "work"

\* transitionToNext counting every phase end, break phases included
transitionToNext_countsBreak(s) ==
    LET nextMode == getNextMode(s)
    IN  Spread(s,
          [ mode |-> nextMode,
            remainingMs |-> IF nextMode = "work"
                            THEN s.workDuration * 60 * 1000
                            ELSE s.breakDuration * 60 * 1000,
            completedSessions |-> s.completedSessions + 1,
            isRunning |-> FALSE ])

\* transitionToNext taking the duration of the phase that ended
transitionToNext_oldDuration(s) ==
    LET isWorkCompleted == s.mode = "work"
        nextMode == getNextMode(s)
    IN  Spread(s,
          [ mode |-> nextMode,
            remainingMs |-> IF nextMode = "work"
                            THEN s.breakDuration * 60 * 1000
                            ELSE s.workDuration * 60 * 1000,
            completedSessions |-> IF isWorkCompleted
                                  THEN s.completedSessions + 1
                                  ELSE s.completedSessions,
            isRunning |-> FALSE ])

transitionToNext(s) ==
    LET isWorkCompleted == s.mode = "work"
        nextMode == getNextMode(s)
    IN  Spread(s,
          [ mode |-> nextMode,
            remainingMs |-> IF nextMode = "work"
                            THEN s.workDuration * 60 * 1000
                            ELSE s.breakDuration * 60 * 1000,
            completedSessions |-> IF isWorkCompleted
                                  THEN s.completedSessions + 1
                                  ELSE s.completedSessions,
            isRunning |-> FALSE ])

----------------------------------------------------------------------------
(* PomodoroManager *)

\* setInterval: a handle the browser has not handed out among the live ones
NewHandle(l) == CHOOSE h \in 1..(Cardinality(l) + 1) : h \notin l

\* startTimer(): <<intervalId, live>> afterwards
startTimer(id, l) ==
    LET cleared == IF Truthy(id) THEN l \ {id} ELSE l
        h == NewHandle(cleared)
    IN  <<h, cleared \cup {h}>>

\* stopTimer forgetting the handle without clearInterval
stopTimer_forgetsClear(id, l) ==
    IF Truthy(id) THEN <<Null, l>> ELSE <<id, l>>

\* stopTimer doing nothing
stopTimer_noop(id, l) == <<id, l>>

\* stopTimer(): <<intervalId, live>> afterwards
stopTimer(id, l) ==
    IF Truthy(id) THEN <<Null, l \ {id}>> ELSE <<id, l>>

\* the onStateChange event of updateState; prevState is <<>> for {}
StateChange(prevState, newState) ==
    [kind |-> "onStateChange", prevState |-> prevState, newState |-> newState]

\* setItem whose failed write leaves the key empty
setItem_losesRecord(content, full, written) == IF full THEN <<>> ELSE written

\* localStorage.setItem inside saveState's try: the storage content afterwards;
\* a write that throws is caught and leaves the content as it was
setItem(content, full, written) == IF full THEN content ELSE written

\* the four event kinds of the callbacks table
EventKinds == {"onTick", "onStateChange", "onComplete", "onModeSwitch"}

\* callbacks as the constructor leaves it: no handler for any kind
NoCallbacks == [k \in EventKinds |-> <<>>]

\* updateState(updates): the new in-memory state
updateState(s, updates) == Spread(s, updates)

\* the page before any saveAll or loadAll: no 'todos' key in localStorage
NoClient == [local |-> <<>>, saved |-> <<>>, loaded |-> <<>>, call |-> "none"]

Init ==
    /\ stored = <<>>
    /\ now = StartTime
    /\ state = loadState(<<>>, StartTime)
    /\ intervalId = Null
    /\ live = {}
    /\ events = <<>>
    /\ lastOp = "construct"
    /\ clockSteps = 0
    /\ storageFull = FALSE
    /\ callbacks = NoCallbacks
    /\ rows = <<>>
    /\ puts = <<>>
    /\ seen = <<>>
    /\ dropped = <<>>
    /\ client = NoClient

\* subscribers that call pause() from inside the onStateChange that tells them
\* the timer has started
Pausers == {"pauser"}

PauserSubscribed ==
    \E i \in DOMAIN callbacks["onStateChange"] :
        callbacks["onStateChange"][i] \in Pausers

\* start() past its early return: updateState({isRunning: true}), whose emit
\* runs the subscribers to completion, then startTimer(). A pauser's pause()
\* finds the timer running and no handle to clear, saves and emits the paused
\* state, and start() sets the schedule after it has returned.
startPaused ==
    LET running == updateState(state, [isRunning |-> TRUE])
        paused == updateState(running, [isRunning |-> FALSE])
        cleared == stopTimer(intervalId, live)
        t == IF PauserSubscribed THEN startTimer(cleared[1], cleared[2])
             ELSE startTimer(intervalId, live)
    IN  /\ intervalId' = t[1]
        /\ live' = t[2]
        /\ IF PauserSubscribed
           THEN /\ state' = paused
                /\ stored' = setItem(setItem(stored, storageFull, saveState(running, now)),
                                     storageFull, saveState(paused, now))
                /\ events' = <<StateChange(state, running), StateChange(running, paused)>>
           ELSE /\ state' = running
                /\ stored' = setItem(stored, storageFull, saveState(running, now))
                /\ events' = <<StateChange(state, running)>>

\* start() without the early return on a running timer
Start_noGuard ==
    /\ lastOp' = "start"
    /\ UNCHANGED <<now, clockSteps, callbacks, others>>
    /\ LET new == updateState(state, [isRunning |-> TRUE])
           t == startTimer(intervalId, live)
       IN  /\ state' = new
           /\ stored' = setItem(stored, storageFull, saveState(new, now))
           /\ events' = <<StateChange(state, new)>>
           /\ intervalId' = t[1]
           /\ live' = t[2]

\* start()
Start ==
    /\ lastOp' = "start"
    /\ UNCHANGED <<now, clockSteps, callbacks, others>>
    /\ IF state.isRunning
       THEN /\ events' = <<>>
            /\ UNCHANGED <<state, stored, intervalId, live>>
       ELSE startPaused

\* pause() that also charges the wall-clock time since the last save
Pause_settlesElapsed ==
    /\ lastOp' = "pause"
    /\ UNCHANGED <<now, clockSteps, callbacks, others>>
    /\ IF ~state.isRunning
       THEN /\ events' = <<>>
            /\ UNCHANGED <<state, stored, intervalId, live>>
       ELSE LET t == stopTimer(intervalId, live)
                away == IF stored = <<>> THEN 0 ELSE now - stored[1].lastTickAt
                new == updateState(state,
                          [isRunning |-> FALSE,
                           remainingMs |-> Max(1, state.remainingMs - away)])
            IN  /\ intervalId' = t[1]
                /\ live' = t[2]
                /\ state' = new
                /\ stored' = setItem(stored, storageFull, saveState(new, now))
                /\ events' = <<StateChange(state, new)>>

\* pause()
Pause ==
    /\ lastOp' = "pause"
    /\ UNCHANGED <<now, clockSteps, callbacks, others>>
    /\ IF ~state.isRunning
       THEN /\ events' = <<>>
            /\ UNCHANGED <<state, stored, intervalId, live>>
       ELSE LET t == stopTimer(intervalId, live)
                new == updateState(state, [isRunning |-> FALSE])
            IN  /\ intervalId' = t[1]
                /\ live' = t[2]
                /\ state' = new
                /\ stored' = setItem(stored, storageFull, saveState(new, now))
                /\ events' = <<StateChange(state, new)>>

\* toggle(): pause() when running, start() otherwise
Toggle ==
    /\ lastOp' = "toggle"
    /\ UNCHANGED <<now, clockSteps, callbacks, others>>
    /\ IF state.isRunning
       THEN LET t == stopTimer(intervalId, live)
                new == updateState(state, [isRunning |-> FALSE])
            IN  /\ intervalId' = t[1]
                /\ live' = t[2]
                /\ state' = new
                /\ stored' = setItem(stored, storageFull, saveState(new, now))
                /\ events' = <<StateChange(state, new)>>
       ELSE startPaused

\* reset() that always goes back to the work duration
Reset_toWorkDuration ==
    LET t == stopTimer(intervalId, live)
        resetTime == state.workDuration * 60 * 1000
        new == updateState(state, [isRunning |-> FALSE, remainingMs |-> resetTime])
    IN  /\ lastOp' = "reset"
        /\ intervalId' = t[1]
        /\ live' = t[2]
        /\ state' = new
        /\ stored' = setItem(stored, storageFull, saveState(new, now))
        /\ events' = <<StateChange(state, new)>>
        /\ UNCHANGED <<now, clockSteps, callbacks, others>>

\* reset()
Reset ==
    LET t == stopTimer(intervalId, live)
        resetTime == IF state.mode = "work"
                     THEN state.workDuration * 60 * 1000
                     ELSE state.breakDuration * 60 * 1000
        new == updateState(state, [isRunning |-> FALSE, remainingMs |-> resetTime])
    IN  /\ lastOp' = "reset"
        /\ intervalId' = t[1]
        /\ live' = t[2]
        /\ state' = new
        /\ stored' = setItem(stored, storageFull, saveState(new, now))
        /\ events' = <<StateChange(state, new)>>
        /\ UNCHANGED <<now, clockSteps, callbacks, others>>

\* the preset names the callers pass
PresetNames == {"pomodoro", "deepwork", "custom"}

\* customDurations = {}
NoDurations == [workDuration |-> 0, breakDuration |-> 0]

\* selectPreset without the line that preserves the completed sessions
selectPreset_dropsSessions(presetName, customDurations) ==
    LET t == stopTimer(intervalId, live)
        newState == initializeWithPreset(presetName, customDurations)
    IN  /\ intervalId' = t[1]
        /\ live' = t[2]
        /\ state' = newState
        /\ stored' = setItem(stored, storageFull, saveState(newState, now))
        /\ events' = <<StateChange(<<>>, newState)>>
        /\ UNCHANGED <<now, clockSteps, callbacks, others>>

\* selectPreset without the saveState call
selectPreset_noSave(presetName, customDurations) ==
    LET t == stopTimer(intervalId, live)
        newState == [initializeWithPreset(presetName, customDurations)
                        EXCEPT !.completedSessions = state.completedSessions]
    IN  /\ intervalId' = t[1]
        /\ live' = t[2]
        /\ state' = newState
        /\ events' = <<StateChange(<<>>, newState)>>
        /\ UNCHANGED <<stored, now, clockSteps, callbacks, others>>

\* the body of selectPreset(presetName, customDurations)
selectPreset(presetName, customDurations) ==
    LET t == stopTimer(intervalId, live)
        newState == [initializeWithPreset(presetName, customDurations)
                        EXCEPT !.completedSessions = state.completedSessions]
    IN  /\ intervalId' = t[1]
        /\ live' = t[2]
        /\ state' = newState
        /\ stored' = setItem(stored, storageFull, saveState(newState, now))
        /\ events' = <<StateChange(<<>>, newState)>>
        /\ UNCHANGED <<now, clockSteps, callbacks, others>>

\* selectPreset(presetName), as the presentation layer calls it
SelectPresetNamed(presetName) ==
    /\ lastOp' = "selectPreset"
    /\ selectPreset(presetName, NoDurations)

SelectPreset == \E presetName \in PresetNames : SelectPresetNamed(presetName)

\* setCustomDurations(workMinutes, breakMinutes)
setCustomDurations(workMinutes, breakMinutes) ==
    /\ lastOp' = "setCustomDurations"
    /\ selectPreset("custom",
          [workDuration |-> workMinutes, breakDuration |-> breakMinutes])

SetCustomDurations ==
    \E workMinutes \in CustomMinutes, breakMinutes \in CustomMinutes :
        setCustomDurations(workMinutes, breakMinutes)

\* skipSession routed through the completion events of a natural expiry
SkipSession_emitsComplete ==
    LET t == stopTimer(intervalId, live)
        nextState == transitionToNext(state)
        new == updateState(state, nextState)
    IN  /\ nextState.completedSessions <= MaxSessions
        /\ lastOp' = "skipSession"
        /\ intervalId' = t[1]
        /\ live' = t[2]
        /\ state' = new
        /\ stored' = setItem(stored, storageFull, saveState(new, now))
        /\ events' = << StateChange(state, new),
                        [ kind |-> "onComplete",
                          completedMode |-> state.mode,
                          nextMode |-> nextState.mode,
                          completedSessions |-> nextState.completedSessions ],
                        [ kind |-> "onModeSwitch",
                          fromMode |-> new.mode,
                          toMode |-> nextState.mode,
                          completedSessions |-> nextState.completedSessions ] >>
        /\ UNCHANGED <<now, clockSteps, callbacks, others>>

\* skipSession(): fromMode is read from this.state after updateState
SkipSession ==
    LET t == stopTimer(intervalId, live)
        nextState == transitionToNext(state)
        new == updateState(state, nextState)
    IN  /\ nextState.completedSessions <= MaxSessions
        /\ lastOp' = "skipSession"
        /\ intervalId' = t[1]
        /\ live' = t[2]
        /\ state' = new
        /\ stored' = setItem(stored, storageFull, saveState(new, now))
        /\ events' = << StateChange(state, new),
                        [ kind |-> "onModeSwitch",
                          fromMode |-> new.mode,
                          toMode |-> nextState.mode,
                          completedSessions |-> nextState.completedSessions ] >>
        /\ UNCHANGED <<now, clockSteps, callbacks, others>>

\* handleTimerComplete emitting onModeSwitch before onComplete
handleTimerComplete_switchFirst(t) ==
    LET wasWorkSession == state.mode = "work"
        nextState == transitionToNext(state)
        tm == stopTimer(intervalId, live)
        new == updateState(state, nextState)
    IN  /\ nextState.completedSessions <= MaxSessions
        /\ intervalId' = tm[1]
        /\ live' = tm[2]
        /\ state' = new
        /\ stored' = setItem(stored, storageFull, saveState(new, t))
        /\ events' = << StateChange(state, new),
                        [ kind |-> "onModeSwitch",
                          fromMode |-> IF wasWorkSession THEN "work" ELSE "break",
                          toMode |-> nextState.mode,
                          completedSessions |-> nextState.completedSessions ],
                        [ kind |-> "onComplete",
                          completedMode |-> IF wasWorkSession THEN "work" ELSE "break",
                          nextMode |-> nextState.mode,
                          completedSessions |-> nextState.completedSessions ] >>

\* handleTimerComplete leaving the interval running
handleTimerComplete_noStop(t) ==
    LET wasWorkSession == state.mode = "work"
        nextState == transitionToNext(state)
        new == updateState(state, nextState)
    IN  /\ nextState.completedSessions <= MaxSessions
        /\ UNCHANGED <<intervalId, live>>
        /\ state' = new
        /\ stored' = setItem(stored, storageFull, saveState(new, t))
        /\ events' = << StateChange(state, new),
                        [ kind |-> "onComplete",
                          completedMode |-> IF wasWorkSession THEN "work" ELSE "break",
                          nextMode |-> nextState.mode,
                          completedSessions |-> nextState.completedSessions ],
                        [ kind |-> "onModeSwitch",
                          fromMode |-> IF wasWorkSession THEN "work" ELSE "break",
                          toMode |-> nextState.mode,
                          completedSessions |-> nextState.completedSessions ] >>

\* handleTimerComplete(), at wall-clock time t
handleTimerComplete(t) ==
    LET wasWorkSession == state.mode = "work"
        nextState == transitionToNext(state)
        tm == stopTimer(intervalId, live)
        new == updateState(state, nextState)
    IN  /\ nextState.completedSessions <= MaxSessions
        /\ intervalId' = tm[1]
        /\ live' = tm[2]
        /\ state' = new
        /\ stored' = setItem(stored, storageFull, saveState(new, t))
        /\ events' = << StateChange(state, new),
                        [ kind |-> "onComplete",
                          completedMode |-> IF wasWorkSession THEN "work" ELSE "break",
                          nextMode |-> nextState.mode,
                          completedSessions |-> nextState.completedSessions ],
                        [ kind |-> "onModeSwitch",
                          fromMode |-> IF wasWorkSession THEN "work" ELSE "break",
                          toMode |-> nextState.mode,
                          completedSessions |-> nextState.completedSessions ] >>

\* tick() whose onTick event carries remainingMs as it was before the tick
Tick_reportsOld ==
    \E h \in live :
        /\ clockSteps < MaxClockSteps
        /\ clockSteps' = clockSteps + 1
        /\ now' = now + TickMs
        /\ lastOp' = "tick"
        /\ UNCHANGED <<callbacks, others>>
        /\ IF ~state.isRunning
           THEN LET t == stopTimer(intervalId, live)
                IN  /\ intervalId' = t[1]
                    /\ live' = t[2]
                    /\ events' = <<>>
                    /\ UNCHANGED <<state, stored>>
           ELSE LET newRemainingMs == Max(0, state.remainingMs - 1000)
                IN  IF newRemainingMs = 0
                    THEN handleTimerComplete(now')
                    ELSE LET new == updateState(state, [remainingMs |-> newRemainingMs])
                         IN  /\ state' = new
                             /\ stored' = setItem(stored, storageFull, saveState(new, now'))
                             /\ events' = << StateChange(state, new),
                                             [ kind |-> "onTick",
                                               remainingMs |-> state.remainingMs,
                                               formatted |-> formatTime(newRemainingMs),
                                               progress |-> getProgress(new) ] >>
                             /\ UNCHANGED <<intervalId, live>>

\* tick() that takes half a second off per firing
Tick_halfSecond ==
    \E h \in live :
        /\ clockSteps < MaxClockSteps
        /\ clockSteps' = clockSteps + 1
        /\ now' = now + TickMs
        /\ lastOp' = "tick"
        /\ UNCHANGED <<callbacks, others>>
        /\ IF ~state.isRunning
           THEN LET t == stopTimer(intervalId, live)
                IN  /\ intervalId' = t[1]
                    /\ live' = t[2]
                    /\ events' = <<>>
                    /\ UNCHANGED <<state, stored>>
           ELSE LET newRemainingMs == Max(0, state.remainingMs - 500)
                IN  IF newRemainingMs = 0
                    THEN handleTimerComplete(now')
                    ELSE LET new == updateState(state, [remainingMs |-> newRemainingMs])
                         IN  /\ state' = new
                             /\ stored' = setItem(stored, storageFull, saveState(new, now'))
                             /\ events' = << StateChange(state, new),
                                             [ kind |-> "onTick",
                                               remainingMs |-> newRemainingMs,
                                               formatted |-> formatTime(newRemainingMs),
                                               progress |-> getProgress(new) ] >>
                             /\ UNCHANGED <<intervalId, live>>

\* tick() without the check that the timer is running
Tick_ignoresPaused ==
    \E h \in live :
        /\ clockSteps < MaxClockSteps
        /\ clockSteps' = clockSteps + 1
        /\ now' = now + TickMs
        /\ lastOp' = "tick"
        /\ UNCHANGED <<callbacks, others>>
        /\ IF FALSE
           THEN LET t == stopTimer(intervalId, live)
                IN  /\ intervalId' = t[1]
                    /\ live' = t[2]
                    /\ events' = <<>>
                    /\ UNCHANGED <<state, stored>>
           ELSE LET newRemainingMs == Max(0, state.remainingMs - 1000)
                IN  IF newRemainingMs = 0
                    THEN handleTimerComplete(now')
                    ELSE LET new == updateState(state, [remainingMs |-> newRemainingMs])
                         IN  /\ state' = new
                             /\ stored' = setItem(stored, storageFull, saveState(new, now'))
                             /\ events' = << StateChange(state, new),
                                             [ kind |-> "onTick",
                                               remainingMs |-> newRemainingMs,
                                               formatted |-> formatTime(newRemainingMs),
                                               progress |-> getProgress(new) ] >>
                             /\ UNCHANGED <<intervalId, live>>

\* tick(), run by the interval callback a period after the previous one
Tick ==
    \E h \in live :
        /\ clockSteps < MaxClockSteps
        /\ clockSteps' = clockSteps + 1
        /\ now' = now + TickMs
        /\ lastOp' = "tick"
        /\ UNCHANGED <<callbacks, others>>
        /\ IF ~state.isRunning
           THEN LET t == stopTimer(intervalId, live)
                IN  /\ intervalId' = t[1]
                    /\ live' = t[2]
                    /\ events' = <<>>
                    /\ UNCHANGED <<state, stored>>
           ELSE LET newRemainingMs == Max(0, state.remainingMs - 1000)
                IN  IF newRemainingMs = 0
                    THEN handleTimerComplete(now')
                    ELSE LET new == updateState(state, [remainingMs |-> newRemainingMs])
                         IN  /\ state' = new
                             /\ stored' = setItem(stored, storageFull, saveState(new, now'))
                             /\ events' = << StateChange(state, new),
                                             [ kind |-> "onTick",
                                               remainingMs |-> newRemainingMs,
                                               formatted |-> formatTime(newRemainingMs),
                                               progress |-> getProgress(new) ] >>
                             /\ UNCHANGED <<intervalId, live>>

\* resetAll() without the clearState() call
ResetAll_keepsRecord ==
    LET t == stopTimer(intervalId, live)
        new == loadState(stored, now)
    IN  /\ lastOp' = "resetAll"
        /\ intervalId' = t[1]
        /\ live' = t[2]
        /\ UNCHANGED stored
        /\ state' = new
        /\ events' = <<StateChange(<<>>, new)>>
        /\ UNCHANGED <<now, clockSteps, callbacks, others>>

\* resetAll()
ResetAll ==
    LET t == stopTimer(intervalId, live)
        new == loadState(clearState, now)
    IN  /\ lastOp' = "resetAll"
        /\ intervalId' = t[1]
        /\ live' = t[2]
        /\ stored' = clearState
        /\ state' = new
        /\ events' = <<StateChange(<<>>, new)>>
        /\ UNCHANGED <<now, clockSteps, callbacks, others>>

\* a constructor that never starts the schedule of a running record
Reload_noSchedule ==
    LET loaded == loadState(stored, now)
        t == <<Null, {}>>
    IN  /\ loaded.completedSessions <= MaxSessions
        /\ lastOp' = "construct"
        /\ state' = loaded
        /\ intervalId' = t[1]
        /\ live' = t[2]
        /\ events' = <<>>
        /\ callbacks' = NoCallbacks
        /\ UNCHANGED <<stored, now, clockSteps, others>>

\* a constructor that writes the reconciled state back to storage
Reload_savesLoaded ==
    LET loaded == loadState(stored, now)
        t == IF loaded.isRunning THEN startTimer(Null, {}) ELSE <<Null, {}>>
    IN  /\ loaded.completedSessions <= MaxSessions
        /\ lastOp' = "construct"
        /\ state' = loaded
        /\ intervalId' = t[1]
        /\ live' = t[2]
        /\ events' = <<>>
        /\ callbacks' = NoCallbacks
        /\ stored' = setItem(stored, storageFull, saveState(loaded, now))
        /\ UNCHANGED <<now, clockSteps, others>>

\* the page is reloaded: the old page's intervals die with it and a new
\* PomodoroManager is constructed from the persisted record
Reload ==
    LET loaded == loadState(stored, now)
        t == IF loaded.isRunning THEN startTimer(Null, {}) ELSE <<Null, {}>>
    IN  /\ loaded.completedSessions <= MaxSessions
        /\ lastOp' = "construct"
        /\ state' = loaded
        /\ intervalId' = t[1]
        /\ live' = t[2]
        /\ events' = <<>>
        /\ callbacks' = NoCallbacks
        /\ UNCHANGED <<stored, now, clockSteps, others>>

\* wall-clock time passes with no callback of the page running
AdvanceClock ==
    \E d \in Deltas :
        /\ clockSteps < MaxClockSteps
        /\ clockSteps' = clockSteps + 1
        /\ now' = now + d
        /\ UNCHANGED <<state, stored, intervalId, live, events, lastOp, callbacks, others>>

Next ==
    \/ Start
    \/ Pause
    \/ Toggle
    \/ Reset
    \/ SelectPreset
    \/ SetCustomDurations
    \/ SkipSession
    \/ Tick
    \/ ResetAll
    \/ Reload
    \/ AdvanceClock

Spec == Init /\ [][Next]_vars

\* a preset name that is not in the catalog (the name comes from the DOM)
UnknownPresetName == "focus"

SelectUnknownPreset == SelectPresetNamed(UnknownPresetName)

NextAnyName ==
    \/ Next
    \/ SelectUnknownPreset

\* the engine when selectPreset may also be called with an unknown name
SpecAnyName == Init /\ [][NextAnyName]_vars

----------------------------------------------------------------------------
(* Vocabulary of the properties *)

OtherMode(m) == IF m = "work" THEN "break" ELSE "work"

\* the full duration in ms of phase m under the durations of s
FullMs(s, m) ==
    IF m = "work" THEN s.workDuration * 60 * 1000 ELSE s.breakDuration * 60 * 1000

\* the events of the given kinds, in emission order
EventsOf(log, kinds) == LET Wanted(e) == e.kind \in kinds IN SelectSeq(log, Wanted)

\* a tick that finds the timer running with at most one period left
TickEndsPhase == Tick /\ state.isRunning /\ state.remainingMs <= 1000

\* the fields of a timer state other than lastTickAt
DataFields == (DOMAIN defaultState) \ {"lastTickAt"}

SameData(a, b) ==
    /\ DOMAIN a = DOMAIN b
    /\ \A f \in DataFields : a[f] = b[f]

----------------------------------------------------------------------------
(* C1: completedSessions rises by exactly 1 when a work phase ends (a tick  *)
(* that exhausts a running work phase, or skipSession in work mode), stays  *)
(* the same when a break phase ends by tick or skip, and no other operation *)
(* among start, pause, toggle, reset, selectPreset, setCustomDurations and  *)
(* a tick that does not end the phase changes it.                           *)
C1_CompletedSessionsCount ==
    [][ /\ ((TickEndsPhase \/ SkipSession) /\ state.mode = "work")
            => state'.completedSessions = state.completedSessions + 1
        /\ ((TickEndsPhase \/ SkipSession) /\ state.mode = "break")
            => state'.completedSessions = state.completedSessions
        /\ (\/ Start \/ Pause \/ Toggle \/ Reset \/ SelectPreset
            \/ SetCustomDurations \/ (Tick /\ ~TickEndsPhase))
            => state'.completedSessions = state.completedSessions
      ]_vars

\* a work phase ended by tick after another had been counted
C1_Witness ==
    /\ lastOp = "tick"
    /\ state.completedSessions = 2
    /\ state.mode = "break"
    /\ Len(EventsOf(events, {"onComplete"})) = 1

(* C2: transitionToNext maps a work state to break with one more completed *)
(* session and breakDuration*60000 ms, a break state to work with the same  *)
(* count and workDuration*60000 ms, always paused, and keeps preset and the *)
(* four durations; checked on every in-memory state and persisted record.   *)
C2_TransitionRule ==
    \A s \in {state} \cup {stored[i] : i \in DOMAIN stored} :
        LET r == transitionToNext(s)
        IN  /\ s.mode = "work" =>
                /\ r.mode = "break"
                /\ r.completedSessions = s.completedSessions + 1
                /\ r.remainingMs = s.breakDuration * 60000
            /\ s.mode = "break" =>
                /\ r.mode = "work"
                /\ r.completedSessions = s.completedSessions
                /\ r.remainingMs = s.workDuration * 60000
            /\ r.isRunning = FALSE
            /\ r.preset = s.preset
            /\ r.workDuration = s.workDuration
            /\ r.breakDuration = s.breakDuration
            /\ r.customWorkDuration = s.customWorkDuration
            /\ r.customBreakDuration = s.customBreakDuration

\* the rule has been applied to a running break state with unequal durations
C2_Witness ==
    /\ lastOp = "skipSession"
    /\ events # <<>>
    /\ state.mode = "work"
    /\ state.preset = "custom"
    /\ state.workDuration = 2
    /\ state.breakDuration = 1
    /\ state.completedSessions = 1
    /\ events[1].prevState.isRunning
    /\ events[1].prevState.mode = "break"

(* C3: a tick on a running state with at most 1000 ms left ends the phase  *)
(* in one step: the mode is flipped, remainingMs is the new mode's full     *)
(* duration, isRunning is false, the interval is cancelled, the record in   *)
(* storage holds the new state, and completedSessions rose by 1 exactly     *)
(* when the phase that ended was work.                                      *)
C3_TickEndsPhaseAtomically ==
    [][ TickEndsPhase =>
          /\ state'.mode = OtherMode(state.mode)
          /\ state'.remainingMs = FullMs(state, state'.mode)
          /\ state'.isRunning = FALSE
          /\ intervalId' = Null
          /\ live' = {}
          /\ Len(stored') = 1
          /\ SameData(stored'[1], state')
          /\ state'.completedSessions =
                state.completedSessions + (IF state.mode = "work" THEN 1 ELSE 0)
          /\ state'.workDuration = state.workDuration
          /\ state'.breakDuration = state.breakDuration
      ]_vars

\* a tick has ended a break phase that had half a second left
C3_Witness ==
    /\ lastOp = "tick"
    /\ Len(events) = 3
    /\ events[1].prevState.mode = "break"
    /\ events[1].prevState.remainingMs = 500
    /\ state.mode = "work"
    /\ intervalId = Null

(* C4: when a tick ends a phase the engine emits exactly one onComplete and *)
(* then exactly one onModeSwitch; onComplete carries the mode that ended,   *)
(* the new mode and the session count after the transition, onModeSwitch    *)
(* carries the mode that ended and the new mode.                            *)
C4_CompleteThenModeSwitch ==
    [][ TickEndsPhase =>
          LET out == EventsOf(events', {"onComplete", "onModeSwitch"})
          IN  /\ Len(out) = 2
              /\ out[1].kind = "onComplete"
              /\ out[1].completedMode = state.mode
              /\ out[1].nextMode = OtherMode(state.mode)
              /\ out[1].nextMode = state'.mode
              /\ out[1].completedSessions = state'.completedSessions
              /\ out[2].kind = "onModeSwitch"
              /\ out[2].fromMode = state.mode
              /\ out[2].toMode = state'.mode
      ]_vars

\* the two events of a work phase that a tick ended
C4_Witness ==
    /\ lastOp = "tick"
    /\ Len(events) = 3
    /\ events[2].kind = "onComplete"
    /\ events[2].completedMode = "work"
    /\ events[2].completedSessions = 1
    /\ events[3].kind = "onModeSwitch"
    /\ events[3].toMode = "break"

\* a persisted record that was running and whose time is used up at time t
Expired(rec, t) ==
    /\ rec.isRunning
    /\ Truthy(rec.lastTickAt)
    /\ t - rec.lastTickAt >= rec.remainingMs

(* C5: loading a running record whose remaining time has elapsed applies    *)
(* exactly one phase transition (mode flipped once, the new mode's full     *)
(* duration, one more completed session only for a work record) and returns *)
(* it paused, however long the page was away; checked for every record and  *)
(* clock value the program reaches.                                         *)
C5_LoadExpiredOneTransition ==
    \A i \in DOMAIN stored :
        LET rec == stored[i]
            r == loadState(stored, now)
        IN  Expired(rec, now) =>
              /\ r.mode = OtherMode(rec.mode)
              /\ r.remainingMs = FullMs(rec, r.mode)
              /\ r.completedSessions =
                    rec.completedSessions + (IF rec.mode = "work" THEN 1 ELSE 0)
              /\ r.isRunning = FALSE

\* a reload after more than a work, a break and another work phase
C5_Witness ==
    /\ lastOp = "construct"
    /\ Len(stored) = 1
    /\ Expired(stored[1], now)
    /\ stored[1].mode = "work"
    /\ now - stored[1].lastTickAt >=
          stored[1].remainingMs + FullMs(stored[1], "break") + FullMs(stored[1], "work")
    /\ state.mode = "break"
    /\ state.completedSessions = stored[1].completedSessions + 1
    /\ state.isRunning = FALSE

(* C6: an engine constructed from a running record saved at t with r ms     *)
(* left, at a time now with 0 <= now - t < r, has remainingMs = r-(now-t),  *)
(* is running in the record's mode with the record's completedSessions, and *)
(* has an active interval.                                                  *)
C6_ReloadRunningNotExpired ==
    [][ (/\ Reload
         /\ Len(stored) = 1
         /\ stored[1].isRunning
         /\ Truthy(stored[1].lastTickAt)
         /\ 0 <= now - stored[1].lastTickAt
         /\ now - stored[1].lastTickAt < stored[1].remainingMs)
        =>
          /\ state'.remainingMs = stored[1].remainingMs - (now - stored[1].lastTickAt)
          /\ state'.isRunning = TRUE
          /\ state'.mode = stored[1].mode
          /\ state'.completedSessions = stored[1].completedSessions
          /\ Truthy(intervalId')
          /\ live' = {intervalId'}
      ]_vars

\* a one-minute break reloaded 59 s after it was started
C6_Witness ==
    /\ lastOp = "construct"
    /\ Len(stored) = 1
    /\ stored[1].isRunning
    /\ stored[1].mode = "break"
    /\ stored[1].remainingMs = 60000
    /\ now - stored[1].lastTickAt = 59000
    /\ state.isRunning
    /\ state.remainingMs = 1000
    /\ live = {intervalId}

(* C7: remainingMs is strictly positive in the in-memory state, in every    *)
(* state and tick payload handed to subscribers, and in the persisted       *)
(* record: 0 is never stored or observed.                                   *)
C7_RemainingMsPositive ==
    /\ state.remainingMs > 0
    /\ \A i \in DOMAIN stored : stored[i].remainingMs > 0
    /\ \A i \in DOMAIN events :
          /\ events[i].kind = "onStateChange" => events[i].newState.remainingMs > 0
          /\ events[i].kind = "onTick" => events[i].remainingMs > 0

\* a record whose time ran out several phases ago has just been reloaded
C7_Witness ==
    /\ lastOp = "construct"
    /\ Len(stored) = 1
    /\ Expired(stored[1], now)
    /\ stored[1].mode = "break"
    /\ stored[1].remainingMs < FullMs(stored[1], "break")
    /\ state.remainingMs = FullMs(state, "work")

(* C8: every write of the persisted record leaves lastTickAt non-null       *)
(* exactly when isRunning is true, and a non-null lastTickAt is the         *)
(* wall-clock time of that write.                                           *)
C8_LastTickAtIffRunning ==
    [][ (stored' # stored /\ stored' # <<>>) =>
          /\ (stored'[1].lastTickAt # Null) <=> stored'[1].isRunning
          /\ stored'[1].isRunning => stored'[1].lastTickAt = now'
      ]_vars

\* a running record written by a tick, after the clock has moved
C8_Witness ==
    /\ lastOp = "tick"
    /\ Len(stored) = 1
    /\ stored[1].isRunning
    /\ stored[1].lastTickAt = now
    /\ now > StartTime
    /\ state.lastTickAt # Null
    /\ state.lastTickAt # now

(* C9: skipSession flips the mode, leaves the timer paused at the new       *)
(* mode's full duration, emits exactly one onModeSwitch and no onComplete,  *)
(* and on a break state leaves completedSessions unchanged.                 *)
C9_SkipSession ==
    [][ SkipSession =>
          /\ state'.mode = OtherMode(state.mode)
          /\ state'.isRunning = FALSE
          /\ state'.remainingMs = FullMs(state, state'.mode)
          /\ Len(EventsOf(events', {"onModeSwitch"})) = 1
          /\ Len(EventsOf(events', {"onComplete"})) = 0
          /\ state.mode = "break" =>
                state'.completedSessions = state.completedSessions
      ]_vars

\* a running, partly elapsed break has been skipped
C9_Witness ==
    /\ lastOp = "skipSession"
    /\ events # <<>>
    /\ state.mode = "work"
    /\ events[1].prevState.mode = "break"
    /\ events[1].prevState.isRunning
    /\ events[1].prevState.remainingMs < FullMs(state, "break")
    /\ state.completedSessions = events[1].prevState.completedSessions

(* C10: the onModeSwitch event of skipSession carries fromMode = the mode   *)
(* before the skip, toMode = the mode after it (so the two differ) and      *)
(* completedSessions = the count after the skip.                            *)
C10_SkipModeSwitchPayload ==
    [][ SkipSession =>
          LET out == EventsOf(events', {"onModeSwitch"})
          IN  /\ Len(out) = 1
              /\ out[1].fromMode = state.mode
              /\ out[1].toMode = state'.mode
              /\ out[1].fromMode # out[1].toMode
              /\ out[1].completedSessions = state'.completedSessions
      ]_vars

(* C11: selectPreset of a catalog name (pomodoro, deepwork) in any state    *)
(* yields a paused work phase of that preset with the catalog durations     *)
(* (25/5, 50/10), remainingMs = workDuration*60000, no interval, and the    *)
(* completedSessions it had before.                                         *)
C11_SelectCatalogPreset ==
    [][ \A name \in {"pomodoro", "deepwork"} :
          SelectPresetNamed(name) =>
            /\ state'.mode = "work"
            /\ state'.isRunning = FALSE
            /\ state'.preset = name
            /\ state'.workDuration = (IF name = "pomodoro" THEN 25 ELSE 50)
            /\ state'.breakDuration = (IF name = "pomodoro" THEN 5 ELSE 10)
            /\ state'.remainingMs = state'.workDuration * 60000
            /\ intervalId' = Null
            /\ live' = {}
            /\ state'.completedSessions = state.completedSessions
      ]_vars

\* deepwork selected with two sessions already completed
C11_Witness ==
    /\ lastOp = "selectPreset"
    /\ state.preset = "deepwork"
    /\ state.remainingMs = 3000000
    /\ state.completedSessions = 2
    /\ Len(stored) = 1
    /\ stored[1].preset = "deepwork"

\* minute counts inside and outside the range the settings form accepts
WideMinutes == {1, 2, 121, 1000}

(* C12: setCustomDurations(w, b) yields preset custom, workDuration =       *)
(* customWorkDuration = w, breakDuration = customBreakDuration = b,         *)
(* remainingMs = w*60000, work mode, paused, completedSessions carried      *)
(* over; initializeWithPreset applies no range limit to w or b.             *)
C12_SetCustomDurations ==
    /\ \A ww \in WideMinutes, bb \in WideMinutes :
          LET r == initializeWithPreset("custom",
                      [workDuration |-> ww, breakDuration |-> bb])
          IN  /\ r.workDuration = ww
              /\ r.customWorkDuration = ww
              /\ r.breakDuration = bb
              /\ r.customBreakDuration = bb
              /\ r.remainingMs = ww * 60000
    /\ [][ \A w \in CustomMinutes, b \in CustomMinutes :
            setCustomDurations(w, b) =>
              /\ state'.preset = "custom"
              /\ state'.workDuration = w
              /\ state'.customWorkDuration = w
              /\ state'.breakDuration = b
              /\ state'.customBreakDuration = b
              /\ state'.remainingMs = w * 60000
              /\ state'.mode = "work"
              /\ state'.isRunning = FALSE
              /\ state'.completedSessions = state.completedSessions
       ]_vars

\* custom durations 1/2 set on a break that had completed sessions
C12_Witness ==
    /\ lastOp = "setCustomDurations"
    /\ state.preset = "custom"
    /\ state.workDuration = 1
    /\ state.breakDuration = 2
    /\ state.customBreakDuration = 2
    /\ state.remainingMs = 60000
    /\ state.completedSessions = 1

\* the operations other than setCustomDurations, selectPreset('custom') and
\* resetAll
KeepsCustomValues ==
    \/ Start \/ Pause \/ Toggle \/ Reset \/ SkipSession \/ Tick \/ Reload
    \/ SelectPresetNamed("pomodoro") \/ SelectPresetNamed("deepwork")

(* C13: customWorkDuration and customBreakDuration are retained when a      *)
(* non-custom preset is selected and by every other operation except        *)
(* resetAll: once set by setCustomDurations(w, b) they stay w and b.        *)
C13_CustomValuesRetained ==
    [][ KeepsCustomValues =>
          /\ state'.customWorkDuration = state.customWorkDuration
          /\ state'.customBreakDuration = state.customBreakDuration
      ]_vars

(* C14: selectPreset('custom') without overrides takes workDuration and     *)
(* breakDuration from the customWorkDuration and customBreakDuration the    *)
(* state held before the call, not from a catalog entry.                    *)
C14_CustomFromCustomValues ==
    [][ SelectPresetNamed("custom") =>
          /\ state'.preset = "custom"
          /\ state'.workDuration = state.customWorkDuration
          /\ state'.breakDuration = state.customBreakDuration
      ]_vars

(* C15: selectPreset of a name that is not in the catalog yields the same   *)
(* state as selectPreset('pomodoro'), the preset field included, so preset  *)
(* is always one of pomodoro, deepwork, custom.                             *)
C15_UnknownPresetIsPomodoro ==
    [][ SelectUnknownPreset =>
          /\ state' = [initializeWithPreset("pomodoro", NoDurations)
                          EXCEPT !.completedSessions = state.completedSessions]
          /\ state'.preset \in PresetNames
      ]_vars

(* C16: reset() cancels the interval, pauses, puts remainingMs back to the  *)
(* current mode's full duration and leaves mode, preset, completedSessions  *)
(* and the four durations unchanged.                                        *)
C16_Reset ==
    [][ Reset =>
          /\ intervalId' = Null
          /\ live' = {}
          /\ state'.isRunning = FALSE
          /\ state'.remainingMs = FullMs(state, state.mode)
          /\ state'.mode = state.mode
          /\ state'.preset = state.preset
          /\ state'.completedSessions = state.completedSessions
          /\ state'.workDuration = state.workDuration
          /\ state'.breakDuration = state.breakDuration
          /\ state'.customWorkDuration = state.customWorkDuration
          /\ state'.customBreakDuration = state.customBreakDuration
      ]_vars

\* a running, partly elapsed break was reset
C16_Witness ==
    /\ lastOp = "reset"
    /\ events # <<>>
    /\ state.mode = "break"
    /\ state.workDuration # state.breakDuration
    /\ state.remainingMs = FullMs(state, "break")
    /\ events[1].prevState.isRunning
    /\ events[1].prevState.remainingMs < state.remainingMs
    /\ intervalId = Null

(* C17: start() on a running engine and pause() on a paused engine change   *)
(* nothing: the in-memory state, the persisted record and the interval stay *)
(* as they were and no event is emitted.                                    *)
C17_NoOpStartPause ==
    [][ ((Start /\ state.isRunning) \/ (Pause /\ ~state.isRunning)) =>
          /\ state' = state
          /\ stored' = stored
          /\ intervalId' = intervalId
          /\ live' = live
          /\ events' = <<>>
      ]_vars

\* start() on a timer started earlier: the record still carries the old stamp
C17_Witness ==
    /\ lastOp = "start"
    /\ events = <<>>
    /\ state.isRunning
    /\ live = {intervalId}
    /\ Len(stored) = 1
    /\ stored[1].lastTickAt < now

(* C18: start() followed by pause() with no tick in between, and toggle()   *)
(* twice from a paused state, leave remainingMs, mode, preset,              *)
(* completedSessions and the durations as they were before the start, with  *)
(* isRunning = false and no interval.                                       *)
C18_StartThenPause ==
    [][ (\/ (Pause /\ lastOp = "start" /\ events # <<>>)
         \/ (Toggle /\ lastOp = "toggle" /\ events # <<>> /\ state.isRunning))
        =>
          LET before == events[1].prevState
          IN  /\ before.isRunning = FALSE
              /\ SameData(state', before)
              /\ state'.isRunning = FALSE
              /\ intervalId' = Null
              /\ live' = {}
      ]_vars

\* a timer with one second left was started and, later, paused
C18_Witness ==
    /\ lastOp = "pause"
    /\ state.remainingMs = 1000
    /\ state.isRunning = FALSE
    /\ Len(events) = 1
    /\ events[1].prevState.isRunning
    /\ events[1].prevState.remainingMs = 1000
    /\ intervalId = Null
    /\ Len(stored) = 1
    /\ stored[1].remainingMs = 1000
    /\ now > StartTime + 59000

(* C19: resetAll() from any state removes the persisted record, cancels the *)
(* interval and sets the in-memory state to the exact default state (work,  *)
(* pomodoro, 1500000 ms, paused, 0 sessions, 25/5); a load() right after it *)
(* returns that default state.                                              *)
C19_ResetAll ==
    [][ ResetAll =>
          /\ stored' = <<>>
          /\ state' = defaultState
          /\ state'.mode = "work"
          /\ state'.preset = "pomodoro"
          /\ state'.remainingMs = 1500000
          /\ state'.isRunning = FALSE
          /\ state'.completedSessions = 0
          /\ state'.workDuration = 25
          /\ state'.breakDuration = 5
          /\ intervalId' = Null
          /\ live' = {}
          /\ loadState(stored', now') = state'
      ]_vars

\* everything was reset after the clock had moved twice
C19_Witness ==
    /\ lastOp = "resetAll"
    /\ stored = <<>>
    /\ state = defaultState
    /\ intervalId = Null
    /\ clockSteps = 2
    /\ Len(events) = 1
    /\ events[1].newState = defaultState

(* C20: for a paused state s, save(s) followed by load() after any elapsed  *)
(* time returns s in every field except lastTickAt, which comes back null:  *)
(* a paused record is not reconciled. Checked on every paused in-memory     *)
(* state the engine reaches.                                                *)
C20_SaveLoadRoundTrip ==
    ~state.isRunning =>
        \A d \in Deltas \cup {0} :
            LET r == loadState(saveState(state, now), now + d)
            IN  /\ SameData(r, state)
                /\ r.lastTickAt = Null

\* a timer paused with one second left was reloaded after the clock moved on
C20_Witness ==
    /\ lastOp = "construct"
    /\ Len(stored) = 1
    /\ stored[1].isRunning = FALSE
    /\ stored[1].remainingMs = 1000
    /\ SameData(state, stored[1])
    /\ state.lastTickAt = Null
    /\ clockSteps = 2

----------------------------------------------------------------------------
(* Loading what the page did not write itself *)

Restrict(rec, F) == [f \in F |-> rec[f]]

\* records the page writes: a one-minute work phase saved while running at
\* StartTime, and the default state saved while paused
WrittenRecords ==
    { saveState(Spread(defaultState,
                  [preset |-> "custom", remainingMs |-> 60 * 1000,
                   workDuration |-> 1, breakDuration |-> 1,
                   customWorkDuration |-> 1, customBreakDuration |-> 1,
                   isRunning |-> TRUE]), StartTime)[1],
      saveState(defaultState, StartTime)[1] }

\* what localStorage may hold when the page opens: nothing, text that is not
\* JSON, or a record with any of its fields missing
StorageContents ==
    {<<>>, <<Unparseable>>}
        \cup { <<Restrict(rec, F)>> : rec \in WrittenRecords,
                                      F \in SUBSET (DOMAIN defaultState) }

\* the page opened on any of these storage contents
InitLoad ==
    /\ stored \in StorageContents
    /\ now = StartTime
    /\ state = loadState(stored, StartTime)
    /\ intervalId = (IF state.isRunning THEN startTimer(Null, {})[1] ELSE Null)
    /\ live = (IF state.isRunning THEN startTimer(Null, {})[2] ELSE {})
    /\ events = <<>>
    /\ lastOp = "construct"
    /\ clockSteps = 0
    /\ storageFull = FALSE
    /\ callbacks = NoCallbacks
    /\ rows = <<>>
    /\ puts = <<>>
    /\ seen = <<>>
    /\ dropped = <<>>
    /\ client = NoClient

NextLoad ==
    \/ Reload
    \/ AdvanceClock

SpecLoad == InitLoad /\ [][NextLoad]_vars

\* the fields of TimerState that hold numbers
NumberFields ==
    {"remainingMs", "completedSessions", "workDuration", "breakDuration",
     "customWorkDuration", "customBreakDuration"}

\* C21: load() never fails: with no record or a malformed one it returns the
\* default state, and fields the record lacks are filled from the defaults,
\* so that every field of the returned state is populated.
C21_LoadFillsFromDefaults ==
    /\ DOMAIN state = DOMAIN defaultState
    /\ stored \in {<<>>, <<Unparseable>>} => state = defaultState
    /\ stored \notin {<<>>, <<Unparseable>>} =>
          \A f \in (DOMAIN defaultState) \ (DOMAIN stored[1]) :
              state[f] = defaultState[f]
    /\ \A f \in NumberFields : state[f] # NaN

----------------------------------------------------------------------------
(* Storage that refuses writes *)

\* localStorage reaches its quota: from now on setItem throws
StorageFills ==
    /\ ~storageFull
    /\ storageFull' = TRUE
    /\ UNCHANGED <<state, stored, intervalId, live, now, events, lastOp,
                   clockSteps, callbacks, rows, puts, seen, dropped, client>>

\* room is made in localStorage: setItem works again
StorageFrees ==
    /\ storageFull
    /\ storageFull' = FALSE
    /\ UNCHANGED <<state, stored, intervalId, live, now, events, lastOp,
                   clockSteps, callbacks, rows, puts, seen, dropped, client>>

\* the record of a one-minute work phase saved by the tick that left it one
\* second to run
LastSecondRecord ==
    saveState(Spread(defaultState,
                [preset |-> "custom", remainingMs |-> 1000,
                 workDuration |-> 1, breakDuration |-> 1,
                 customWorkDuration |-> 1, customBreakDuration |-> 1,
                 isRunning |-> TRUE]), StartTime)[1]

\* the page opened on no record or on LastSecondRecord
InitOpened ==
    /\ stored \in {<<>>, <<LastSecondRecord>>}
    /\ now = StartTime
    /\ state = loadState(stored, StartTime)
    /\ intervalId = (IF state.isRunning THEN startTimer(Null, {})[1] ELSE Null)
    /\ live = (IF state.isRunning THEN startTimer(Null, {})[2] ELSE {})
    /\ events = <<>>
    /\ lastOp = "construct"
    /\ clockSteps = 0
    /\ storageFull = FALSE
    /\ callbacks = NoCallbacks
    /\ rows = <<>>
    /\ puts = <<>>
    /\ seen = <<>>
    /\ dropped = <<>>
    /\ client = NoClient

NextQuota ==
    \/ Start
    \/ Pause
    \/ Reset
    \/ SelectPreset
    \/ SkipSession
    \/ Tick
    \/ StorageFills
    \/ StorageFrees

SpecQuota == InitOpened /\ [][NextQuota]_vars

\* the kinds of the events of a log, in emission order
Kinds(log) == [i \in 1..Len(log) |-> log[i].kind]

(* C22: when the storage write fails during start, pause, reset,            *)
(* selectPreset, skipSession or a tick, the operation completes: the        *)
(* in-memory state, the tick schedule and the emitted events are those of a *)
(* successful write, and the persisted record stays as it was.              *)
C22_WriteFailureSwallowed ==
    [][ storageFull =>
          /\ (Start \/ Pause \/ Reset \/ SelectPreset \/ SkipSession \/ Tick)
                => stored' = stored
          /\ (Start /\ ~state.isRunning) =>
                /\ state' = [state EXCEPT !.isRunning = TRUE]
                /\ events' = <<StateChange(state, state')>>
                /\ intervalId' # Null /\ live' = {intervalId'}
          /\ (Pause /\ state.isRunning) =>
                /\ state' = [state EXCEPT !.isRunning = FALSE]
                /\ events' = <<StateChange(state, state')>>
                /\ intervalId' = Null /\ live' = {}
          /\ Reset =>
                /\ state' = [state EXCEPT !.isRunning = FALSE,
                                          !.remainingMs = FullMs(state, state.mode)]
                /\ events' = <<StateChange(state, state')>>
                /\ live' = {}
          /\ SelectPreset =>
                /\ state'.mode = "work" /\ ~state'.isRunning
                /\ state'.remainingMs = FullMs(state', "work")
                /\ state'.completedSessions = state.completedSessions
                /\ events' = <<StateChange(<<>>, state')>>
                /\ live' = {}
          /\ SkipSession =>
                /\ state' = Spread(transitionToNext(state), [isRunning |-> FALSE])
                /\ Kinds(events') = <<"onStateChange", "onModeSwitch">>
                /\ events'[1].newState = state'
                /\ live' = {}
          /\ TickEndsPhase =>
                /\ state' = Spread(transitionToNext(state), [isRunning |-> FALSE])
                /\ Kinds(events') = <<"onStateChange", "onComplete", "onModeSwitch">>
                /\ events'[1].newState = state'
                /\ live' = {}
          /\ (Tick /\ state.isRunning /\ state.remainingMs > 1000) =>
                /\ state' = [state EXCEPT !.remainingMs = @ - 1000]
                /\ Kinds(events') = <<"onStateChange", "onTick">>
                /\ events'[1].newState = state'
                /\ live' = live
      ]_vars

\* with the storage full a tick has ended the work phase: the engine is in the
\* break while the record still shows the running work phase
C22_Witness ==
    /\ storageFull
    /\ lastOp = "tick"
    /\ Kinds(events) = <<"onStateChange", "onComplete", "onModeSwitch">>
    /\ state.mode = "break"
    /\ stored = <<LastSecondRecord>>

----------------------------------------------------------------------------
(* The tick schedule *)

(* C23: in every reachable state at most one tick schedule is live, and it  *)
(* is the one the engine holds the handle of; startTimer called in that     *)
(* state would cancel it before it makes the new one.                       *)
C23_AtMostOneSchedule ==
    /\ Cardinality(live) <= 1
    /\ live = (IF intervalId = Null THEN {} ELSE {intervalId})
    /\ Cardinality(startTimer(intervalId, live)[2]) = 1

\* an engine constructed from a running record (its first schedule) has been
\* paused and started again (its second schedule)
C23_Witness ==
    /\ lastOp = "start"
    /\ state.isRunning
    /\ Len(events) = 1
    /\ ~events[1].prevState.isRunning
    /\ events[1].prevState.lastTickAt # Null
    /\ live = {intervalId}

\* the operations that stop the countdown
StopOps == {"pause", "reset", "selectPreset", "setCustomDurations", "skipSession"}

(* C24: pause, reset, selectPreset, setCustomDurations and skipSession      *)
(* leave no tick schedule behind, and after one of them has returned no     *)
(* tick is pending and no tick changes remainingMs, mode or                 *)
(* completedSessions until start() or toggle() runs.                        *)
C24_StoppedMeansNoTick ==
    [][ /\ (Pause \/ Reset \/ SelectPreset \/ SetCustomDurations \/ SkipSession) =>
              /\ intervalId' = Null
              /\ live' = {}
              /\ ~state'.isRunning
        /\ lastOp \in StopOps =>
              /\ live = {}
              /\ Tick =>
                    /\ state'.remainingMs = state.remainingMs
                    /\ state'.mode = state.mode
                    /\ state'.completedSessions = state.completedSessions
      ]_vars

\* a running, partly elapsed phase has been reset and the clock has moved on
\* since, with no schedule left to fire
C24_Witness ==
    /\ lastOp = "reset"
    /\ events # <<>>
    /\ events[1].prevState.isRunning
    /\ events[1].prevState.remainingMs < state.remainingMs
    /\ live = {}
    /\ clockSteps = MaxClockSteps

----------------------------------------------------------------------------
(* Subscribers *)

\* at most this many registrations are held at a time
MaxSubscriptions == 3

\* the callbacks passed to subscribe and unsubscribe; h1 throws when called
Handlers == {"h1", "h2"}
Throwers == {"h1"}

\* the event names passed to subscribe and unsubscribe: the four kinds and
\* one the engine does not have
EventNames == EventKinds \cup {"onReset"}

RECURSIVE Registrations(_, _)
Registrations(cbs, kinds) ==
    IF kinds = {} THEN 0
    ELSE LET k == CHOOSE x \in kinds : TRUE
         IN  Len(cbs[k]) + Registrations(cbs, kinds \ {k})

\* subscribe(event, callback)
subscribe(event, callback) ==
    /\ Registrations(callbacks, EventKinds) < MaxSubscriptions
    /\ lastOp' = "subscribe"
    /\ callbacks' = IF event \in DOMAIN callbacks
                    THEN [callbacks EXCEPT ![event] = Append(@, callback)]
                    ELSE callbacks
    /\ dropped' = IF dropped = <<event, callback>> THEN <<>> ELSE dropped
    /\ events' = <<>>
    /\ UNCHANGED <<state, stored, intervalId, live, now, clockSteps,
                   storageFull, rows, puts, seen, client>>

Subscribe ==
    \E event \in EventNames, callback \in Handlers : subscribe(event, callback)

\* the elements of a sequence
Range(seq) == {seq[i] : i \in 1..Len(seq)}

\* seq without its first element equal to x
RECURSIVE WithoutFirst(_, _)
WithoutFirst(seq, x) ==
    IF seq = <<>> THEN <<>>
    ELSE IF Head(seq) = x THEN Tail(seq)
    ELSE <<Head(seq)>> \o WithoutFirst(Tail(seq), x)

\* unsubscribe removing only the first registration of the callback
unsubscribe_removesFirst(event, callback) ==
    /\ lastOp' = "unsubscribe"
    /\ callbacks' = IF event \in DOMAIN callbacks
                    THEN [callbacks EXCEPT ![event] = WithoutFirst(@, callback)]
                    ELSE callbacks
    /\ dropped' = IF event \in DOMAIN callbacks /\ callback \in Range(callbacks[event])
                  THEN <<event, callback>> ELSE dropped
    /\ events' = <<>>
    /\ UNCHANGED <<state, stored, intervalId, live, now, clockSteps,
                   storageFull, rows, puts, seen, client>>

\* unsubscribe(event, callback)
unsubscribe(event, callback) ==
    /\ lastOp' = "unsubscribe"
    /\ callbacks' = IF event \in DOMAIN callbacks
                    THEN LET Other(cb) == cb # callback
                         IN  [callbacks EXCEPT ![event] = SelectSeq(@, Other)]
                    ELSE callbacks
    /\ dropped' = IF event \in DOMAIN callbacks /\ callback \in Range(callbacks[event])
                  THEN <<event, callback>> ELSE dropped
    /\ events' = <<>>
    /\ UNCHANGED <<state, stored, intervalId, live, now, clockSteps,
                   storageFull, rows, puts, seen, client>>

Unsubscribe ==
    \E event \in EventNames, callback \in Handlers : unsubscribe(event, callback)

\* the calls of a loop over the callbacks hs with event e that stops at the
\* first callback that throws
RECURSIVE CallsUntilThrow(_, _)
CallsUntilThrow(hs, e) ==
    IF hs = <<>> THEN <<>>
    ELSE <<[callback |-> Head(hs), data |-> e, threw |-> Head(hs) \in Throwers]>>
            \o (IF Head(hs) \in Throwers THEN <<>>
                ELSE CallsUntilThrow(Tail(hs), e))

\* emit without the try/catch around the call
emit_noCatch(cbs, e) ==
    LET hs == IF e.kind \in DOMAIN cbs THEN cbs[e.kind] ELSE <<>>
    IN  [ calls |-> CallsUntilThrow(hs, e),
          escaped |-> \E i \in 1..Len(hs) : hs[i] \in Throwers ]

\* emit(event, data): the callback calls it makes, in order, and whether an
\* exception escapes it; e is the event, e.kind its name
emit(cbs, e) ==
    LET hs == IF e.kind \in DOMAIN cbs THEN cbs[e.kind] ELSE <<>>
    IN  [ calls |-> [i \in 1..Len(hs) |->
                        [callback |-> hs[i], data |-> e, threw |-> hs[i] \in Throwers]],
          escaped |-> FALSE ]

NextBridge ==
    \/ Subscribe
    \/ Unsubscribe
    \/ Start
    \/ Tick

SpecBridge == InitOpened /\ [][NextBridge]_vars

(* C25: every event an operation emits is delivered, within the operation,  *)
(* to all the subscribers of its kind in the order they subscribed; a       *)
(* subscriber that throws does not keep the later ones from getting the     *)
(* event, no exception leaves emit, and the operation completes as it does  *)
(* with no subscriber.                                                      *)
C25_DeliveryInRegistrationOrder ==
    [][ /\ \A k \in EventKinds, h \in Handlers :
              subscribe(k, h) =>
                  /\ callbacks'[k] = callbacks[k] \o <<h>>
                  /\ \A k2 \in EventKinds \ {k} : callbacks'[k2] = callbacks[k2]
        /\ (Start \/ Tick) =>
              /\ callbacks' = callbacks
              /\ \A i \in 1..Len(events') :
                    LET e == events'[i]
                        hs == callbacks[e.kind]
                        r == emit(callbacks, e)
                    IN  /\ ~r.escaped
                        /\ Len(r.calls) = Len(hs)
                        /\ \A j \in 1..Len(hs) :
                              /\ r.calls[j].callback = hs[j]
                              /\ r.calls[j].data = e
        /\ (Start /\ ~state.isRunning) =>
              /\ state' = [state EXCEPT !.isRunning = TRUE]
              /\ live' = {intervalId'}
        /\ TickEndsPhase =>
              /\ state' = Spread(transitionToNext(state), [isRunning |-> FALSE])
              /\ Kinds(events') = <<"onStateChange", "onComplete", "onModeSwitch">>
              /\ live' = {}
      ]_vars

\* a tick has ended the work phase with h1, which throws, subscribed to
\* onComplete before h2: both were called, h2 after h1
C25_Witness ==
    /\ lastOp = "tick"
    /\ Kinds(events) = <<"onStateChange", "onComplete", "onModeSwitch">>
    /\ callbacks["onComplete"] = <<"h1", "h2">>
    /\ emit(callbacks, events[2]).calls[1].threw
    /\ emit(callbacks, events[2]).calls[2].callback = "h2"
    /\ state.mode = "break"

(* C26: once unsubscribe(kind, h) has returned, h is called for no later    *)
(* event of that kind; the other handlers of the kind keep their order, and *)
(* the registrations of the other kinds, those of h included, are as they   *)
(* were.                                                                    *)
C26_UnsubscribeStopsDelivery ==
    [][ /\ \A k \in EventNames, h \in Handlers :
              unsubscribe(k, h) =>
                  /\ k \in EventKinds =>
                        LET Other(cb) == cb # h
                        IN  /\ h \notin Range(callbacks'[k])
                            /\ callbacks'[k] = SelectSeq(callbacks[k], Other)
                  /\ \A k2 \in EventKinds \ {k} : callbacks'[k2] = callbacks[k2]
        /\ (dropped # <<>> /\ (Start \/ Tick)) =>
              \A i \in 1..Len(events') :
                  LET calls == emit(callbacks, events'[i]).calls
                  IN  events'[i].kind = dropped[1] =>
                          \A j \in 1..Len(calls) : calls[j].callback # dropped[2]
      ]_vars

\* h1 was unsubscribed from onStateChange and a tick has run since: its
\* onStateChange went to h2 alone, its onTick to h1
C26_Witness ==
    /\ lastOp = "tick"
    /\ dropped = <<"onStateChange", "h1">>
    /\ Kinds(events) = <<"onStateChange", "onTick">>
    /\ callbacks["onStateChange"] = <<"h2">>
    /\ callbacks["onTick"] = <<"h1">>
    /\ emit(callbacks, events[1]).calls[1].callback = "h2"
    /\ emit(callbacks, events[2]).calls[1].callback = "h1"

----------------------------------------------------------------------------
(* A wall clock that is set back *)

\* how far (ms) the wall clock may be set back
BackDeltas == {500}

\* the system clock is corrected backwards while no callback of the page runs
ClockSetBack ==
    \E d \in BackDeltas :
        /\ clockSteps < MaxClockSteps
        /\ now > d
        /\ clockSteps' = clockSteps + 1
        /\ now' = now - d
        /\ UNCHANGED <<state, stored, intervalId, live, events, lastOp,
                       callbacks, others>>

NextSkew ==
    \/ Start
    \/ Reset
    \/ Tick
    \/ Reload
    \/ ClockSetBack

SpecSkew == InitOpened /\ [][NextSkew]_vars

(* C27: with positive durations getProgress is between 0 and 100 and is     *)
(* measured against the duration of the current mode; it is 0 exactly when  *)
(* remainingMs is the full duration of the current mode, and 100 when       *)
(* remainingMs is 0.                                                        *)
C27_Progress ==
    LET full == FullMs(state, state.mode)
        p == getProgress(state)
        atZero == getProgress([state EXCEPT !.remainingMs = 0])
    IN  (state.workDuration > 0 /\ state.breakDuration > 0) =>
          /\ p.den > 0 /\ 0 <= p.num /\ p.num <= 100 * p.den
          /\ (0 < state.remainingMs /\ state.remainingMs < full) =>
                p = Ratio((full - state.remainingMs) * 100, full)
          /\ p.num = 0 <=> state.remainingMs = full
          /\ atZero.num = 100 * atZero.den

----------------------------------------------------------------------------
(* Display text *)

\* the number a sequence of digit characters writes
RECURSIVE ToNumber(_)
ToNumber(str) ==
    IF str = <<>> THEN 0
    ELSE LET last == str[Len(str)]
             d == CHOOSE n \in 0..9 : toString(n) = <<last>>
         IN  10 * ToNumber(SubSeq(str, 1, Len(str) - 1)) + d

\* values of ms tried besides the remaining times the engine reaches
MsSamples == {0, 1, 999, 1000, 1001, 59001, 60000, 90000, 599001, 5999001, 6000000}

(* C28: for a non-negative integer ms, formatTime(ms) writes ceil(ms/1000)  *)
(* seconds as minutes, a colon and seconds, each padded with zeros to two   *)
(* digits or more: formatTime(0) = "00:00", formatTime(1) = "00:01",        *)
(* formatTime(90000) = "01:30"; the text is "00:00" if and only if ms = 0.  *)
C28_FormatTime ==
    /\ formatTime(0) = <<"0", "0", ":", "0", "0">>
    /\ formatTime(1) = <<"0", "0", ":", "0", "1">>
    /\ formatTime(90000) = <<"0", "1", ":", "3", "0">>
    /\ \A ms \in MsSamples \cup {state.remainingMs} :
          LET text == formatTime(ms)
              mm == SubSeq(text, 1, Len(text) - 3)
              ss == SubSeq(text, Len(text) - 1, Len(text))
              total == 60 * ToNumber(mm) + ToNumber(ss)
          IN  /\ Len(text) >= 5
              /\ text[Len(text) - 2] = ":"
              /\ ToNumber(ss) < 60
              /\ total * 1000 >= ms /\ (total - 1) * 1000 < ms
              /\ Len(mm) = Max(2, Len(toString(ToNumber(mm))))
              /\ text = <<"0", "0", ":", "0", "0">> <=> ms = 0
    /\ \A i \in 1..Len(events) :
          events[i].kind = "onTick" =>
              events[i].formatted = formatTime(state.remainingMs)

\* a tick has left 59.5 seconds, shown as a full minute
C28_Witness ==
    /\ lastOp = "tick"
    /\ Kinds(events) = <<"onStateChange", "onTick">>
    /\ state.remainingMs = 59500
    /\ events[2].formatted = <<"0", "1", ":", "0", "0">>

----------------------------------------------------------------------------
(* lastTickAt in memory *)

(* C29: the state getState() returns and the state load() returns have      *)
(* lastTickAt null whenever isRunning is false, also after a load that      *)
(* found the running record expired and after a timer reloaded while        *)
(* running has been paused.                                                 *)
C29_PausedHasNoLastTickAt ==
    LET loaded == loadState(stored, now)
    IN  /\ ~state.isRunning => state.lastTickAt = Null
        /\ ~loaded.isRunning => loaded.lastTickAt = Null

----------------------------------------------------------------------------
(* The task server: GET and PUT /api/todos over table todos.                *)
(* Each PUT runs its statements in one transaction on its own connection;   *)
(* transactions run at the default isolation level of PostgreSQL, READ      *)
(* COMMITTED: a statement sees the rows committed when it starts, and waits  *)
(* for the transaction that holds the lock of a row it needs.               *)

\* the identifiers and texts of the tasks in request bodies
TodoIds == {"a", "b"}
Texts == {"x", "y"}

\* a request body holds at most this many tasks
MaxBody == 2

\* the connections PUT requests run on
Connections == {1, 2}

\* the todos arrays of PUT requests
Bodies ==
    UNION { [1..n -> [id : TodoIds, text : Texts]] : n \in 0..MaxBody }

\* a connection of the pool that runs no transaction
Free(c) ==
    IF c \in DOMAIN puts THEN puts[c].pc \in {"committed", "rolledBack"} ELSE TRUE

\* the connections with a transaction in progress
Open == {c \in DOMAIN puts : puts[c].pc \in {"begun", "inserting"}}

\* what is left of the request on connection c once it is answered
Answered(c, outcome) ==
    [puts EXCEPT ![c] = [pc |-> outcome, todos |-> <<>>, next |-> 1,
                         deleted |-> {}, written |-> <<>>]]

\* begin
PutBegin ==
    \E c \in Connections, todos \in Bodies :
        /\ Free(c)
        /\ puts' = [x \in (DOMAIN puts) \cup {c} |->
                       IF x = c
                       THEN [pc |-> "begun", todos |-> todos, next |-> 1,
                             deleted |-> {}, written |-> <<>>]
                       ELSE puts[x]]
        /\ UNCHANGED <<rows, seen>>
        /\ UNCHANGED <<state, stored, intervalId, live, now, events, lastOp,
                       clockSteps, callbacks, storageFull, dropped, client>>

\* the committed rows whose lock another transaction than c holds: those it
\* deleted and those its upsert updated
LockedByOthers(c) ==
    UNION { (puts[x].deleted \cup DOMAIN puts[x].written) \cap DOMAIN rows :
                x \in Open \ {c} }

\* delete from todos: removes the committed rows, once no other transaction
\* holds the lock of one of them
PutDelete ==
    \E c \in Open :
        /\ puts[c].pc = "begun"
        /\ LockedByOthers(c) = {}
        /\ puts' = [puts EXCEPT ![c].pc = "inserting",
                                ![c].deleted = DOMAIN rows]
        /\ UNCHANGED <<rows, seen>>
        /\ UNCHANGED <<state, stored, intervalId, live, now, events, lastOp,
                       clockSteps, callbacks, storageFull, dropped, client>>

\* the ids other transactions than c have inserted and not yet committed
InsertedByOthers(c) ==
    UNION { DOMAIN puts[x].written : x \in Open \ {c} }

\* insert ... on conflict (id) do update, for the next task of the body: it
\* waits for the transaction that locked or inserted a row with this id
PutInsert ==
    \E c \in Open :
        /\ puts[c].pc = "inserting"
        /\ puts[c].next <= Len(puts[c].todos)
        /\ LET t == puts[c].todos[puts[c].next]
               w == puts[c].written
           IN  /\ t.id \notin LockedByOthers(c) \cup InsertedByOthers(c)
               /\ puts' = [puts EXCEPT
                             ![c].next = @ + 1,
                             ![c].written =
                                 [i \in (DOMAIN w) \cup {t.id} |->
                                     IF i = t.id THEN t.text ELSE w[i]]]
        /\ UNCHANGED <<rows, seen>>
        /\ UNCHANGED <<state, stored, intervalId, live, now, events, lastOp,
                       clockSteps, callbacks, storageFull, dropped, client>>

\* a statement of the transaction throws: rollback, and the error is answered
PutRollback ==
    \E c \in Open :
        /\ puts' = Answered(c, "rolledBack")
        /\ UNCHANGED <<rows, seen>>
        /\ UNCHANGED <<state, stored, intervalId, live, now, events, lastOp,
                       clockSteps, callbacks, storageFull, dropped, client>>

\* the table after the transaction of connection c commits
Committed(c) ==
    LET w == puts[c].written
        kept == (DOMAIN rows) \ puts[c].deleted
    IN  [i \in kept \cup DOMAIN w |-> IF i \in DOMAIN w THEN w[i] ELSE rows[i]]

\* commit, after the last insert
PutCommit ==
    \E c \in Open :
        /\ puts[c].pc = "inserting"
        /\ puts[c].next > Len(puts[c].todos)
        /\ rows' = Committed(c)
        /\ puts' = Answered(c, "committed")
        /\ UNCHANGED seen
        /\ UNCHANGED <<state, stored, intervalId, live, now, events, lastOp,
                       clockSteps, callbacks, storageFull, dropped, client>>

\* GET /api/todos: select * from todos, outside any transaction
Get ==
    /\ seen' = rows
    /\ UNCHANGED <<rows, puts>>
    /\ UNCHANGED <<state, stored, intervalId, live, now, events, lastOp,
                   clockSteps, callbacks, storageFull, dropped, client>>

NextServer ==
    \/ PutBegin
    \/ PutDelete
    \/ PutInsert
    \/ PutRollback
    \/ PutCommit
    \/ Get

SpecServer == Init /\ [][NextServer]_vars

\* the collection a body describes: one row per id, the last task with an id
\* giving its text
Collection(todos) ==
    LET ids == {todos[i].id : i \in 1..Len(todos)}
        Last(id) == CHOOSE i \in 1..Len(todos) :
                        /\ todos[i].id = id
                        /\ \A j \in (i + 1)..Len(todos) : todos[j].id # id
    IN  [id \in ids |-> todos[Last(id)].text]

(* C30: a PUT /api/todos is all-or-nothing: when it finishes the table      *)
(* holds exactly the tasks of its body (one row per id, the last task with  *)
(* an id winning), or, when a statement failed, what it held before; until  *)
(* then the table a GET reads does not change, so that a GET never sees a   *)
(* partly replaced collection.                                              *)
C30_PutReplacesAllOrNothing ==
    [][ /\ \A c \in Open :
              (PutCommit /\ puts'[c].pc = "committed") =>
                  rows' = Collection(puts[c].todos)
        /\ (PutBegin \/ PutDelete \/ PutInsert \/ PutRollback) => rows' = rows
        /\ Get => seen' = rows
      ]_vars

----------------------------------------------------------------------------
(* Record and memory *)

\* the persisted record agrees with the in-memory state
Agrees ==
    IF stored = <<>> THEN state = defaultState ELSE SameData(stored[1], state)

(* C31: after every engine operation has returned (storage working) the     *)
(* persisted record agrees with the in-memory state: there is a record with *)
(* the same mode, remainingMs, preset, isRunning, completedSessions and     *)
(* durations, or there is none and the in-memory state is the default.      *)
C31_RecordAgreesAfterEveryOperation ==
    lastOp # "construct" => Agrees

(* C31 amended: the record agrees with the in-memory state after every      *)
(* engine operation that changed the state; start() on a running engine and *)
(* pause() on a paused one write nothing, so after a reload they leave the  *)
(* record as the reload found it.                                           *)
C31_RecordAgreesAfterMutation ==
    (lastOp # "construct" /\ events # <<>>) => Agrees

\* an engine reloaded from a running record, one second from the end of the
\* phase, has been paused: the record now shows the reconciled second
C31_Witness ==
    /\ lastOp = "pause"
    /\ Len(events) = 1
    /\ events[1].prevState.isRunning
    /\ events[1].prevState.lastTickAt # Null
    /\ state.remainingMs = 1000
    /\ stored # <<>>
    /\ stored[1].remainingMs = 1000

\* the fields a phase transition sets
TransitionFields == {"mode", "remainingMs", "completedSessions", "isRunning"}

(* C32: for every running record that expired while the page was away, the  *)
(* transition load() applies inline gives the same mode, remainingMs,       *)
(* completedSessions and isRunning as transitionToNext applied to the       *)
(* record, the function a tick that ends a phase and skipSession use.       *)
C32_LoadTransitionIsTransitionToNext ==
    \A i \in DOMAIN stored :
        Expired(stored[i], now) =>
            \A f \in TransitionFields :
                loadState(stored, now)[f] = transitionToNext(stored[i])[f]

\* an engine constructed from a break record that expired while away
C32_Witness ==
    /\ lastOp = "construct"
    /\ Len(stored) = 1
    /\ Expired(stored[1], now)
    /\ stored[1].mode = "break"
    /\ \A f \in TransitionFields : state[f] = transitionToNext(stored[1])[f]
    /\ state.mode = "work"

----------------------------------------------------------------------------
(* Ticks *)

(* C33: a tick on a running state with more than 1000 ms left takes exactly *)
(* 1000 ms off remainingMs and changes no other field, persists the new     *)
(* state, and emits one onStateChange and then one onTick whose remainingMs *)
(* is the new in-memory value, and neither onComplete nor onModeSwitch.     *)
C33_TickFrame ==
    [][ (Tick /\ state.isRunning /\ state.remainingMs > 1000) =>
          /\ state' = [state EXCEPT !.remainingMs = @ - 1000]
          /\ Len(stored') = 1
          /\ SameData(stored'[1], state')
          /\ stored'[1].lastTickAt = now'
          /\ Kinds(events') = <<"onStateChange", "onTick">>
          /\ events'[1].prevState = state
          /\ events'[1].newState = state'
          /\ events'[2].remainingMs = state'.remainingMs
          /\ intervalId' = intervalId /\ live' = live
      ]_vars

\* a tick has taken a second off a running break
C33_Witness ==
    /\ lastOp = "tick"
    /\ Kinds(events) = <<"onStateChange", "onTick">>
    /\ state.mode = "break"
    /\ state.isRunning
    /\ state.remainingMs = events[1].prevState.remainingMs - 1000
    /\ events[2].remainingMs = state.remainingMs
    /\ stored # <<>>
    /\ stored[1].remainingMs = state.remainingMs

----------------------------------------------------------------------------
(* The countdown left alone *)

\* remaining times a running phase can be opened on, within reach of the
\* ticks the clock bound allows
RemainingSamples ==
    {r \in {1, 500, 999, 1000, 1001, 1500, 2000, 2500, 3000, 3001} :
        r <= MaxClockSteps * TickMs}

\* running records saved at the instant the page is opened
RunningRecords ==
    { saveState(Spread(defaultState,
                  [mode |-> m, remainingMs |-> r, preset |-> p,
                   workDuration |-> getPresets[p].workDuration,
                   breakDuration |-> getPresets[p].breakDuration,
                   completedSessions |-> n, isRunning |-> TRUE]),
                StartTime)[1] :
        m \in {"work", "break"}, r \in RemainingSamples,
        p \in {"pomodoro", "deepwork"}, n \in 0..(MaxSessions - 1) }

\* the page opened on a running record: the constructor loads it and starts
\* the schedule
InitCountdown ==
    /\ stored \in {<<rec>> : rec \in RunningRecords}
    /\ now = StartTime
    /\ state = loadState(stored, StartTime)
    /\ intervalId = startTimer(Null, {})[1]
    /\ live = startTimer(Null, {})[2]
    /\ events = <<>>
    /\ lastOp = "construct"
    /\ clockSteps = 0
    /\ storageFull = FALSE
    /\ callbacks = NoCallbacks
    /\ rows = <<>>
    /\ puts = <<>>
    /\ seen = <<>>
    /\ dropped = <<>>
    /\ client = NoClient

\* no user operation: only the interval callback runs
NextCountdown == Tick

\* setInterval keeps firing the callback for as long as the handle is live
SpecCountdown == InitCountdown /\ [][NextCountdown]_vars /\ WF_vars(Tick)

\* the phase that was running has ended: paused in mode m at its full duration
\* after n ticks, with no schedule left
PhaseEnded(m, n) ==
    /\ ~state.isRunning
    /\ state.mode = m
    /\ state.remainingMs = FullMs(state, m)
    /\ clockSteps = n
    /\ live = {}
    /\ intervalId = Null

(* C34: left alone while running with r ms remaining, the countdown ends   *)
(* the phase after exactly ceil(r/1000) ticks, and then stays paused in    *)
(* the other mode at that mode's full duration: the next phase never       *)
(* starts by itself.                                                       *)
C34_CountdownEndsPhase ==
    \A r \in RemainingSamples : \A m \in {"work", "break"} :
    \A c \in 0..MaxClockSteps :
        (state.isRunning /\ state.remainingMs = r /\ state.mode = m
            /\ clockSteps = c)
        ~> [] PhaseEnded(OtherMode(m), c + Ceil(r, TickMs))

\* a work phase opened with 1001 ms left has ended on the second tick
C34_Witness ==
    /\ PhaseEnded("break", 2)
    /\ lastOp = "tick"
    /\ Kinds(events) = <<"onStateChange", "onComplete", "onModeSwitch">>
    /\ events[1].prevState.mode = "work"
    /\ events[1].prevState.remainingMs = 1

----------------------------------------------------------------------------
(* The schedule and the running flag *)

\* a tick schedule is active: an interval of this engine is live and the
\* engine holds its handle
ScheduleActive == intervalId # Null /\ intervalId \in live

(* C35: after any sequence of construction, start, pause, toggle, reset,   *)
(* selectPreset, setCustomDurations, skipSession, tick and resetAll, a     *)
(* tick schedule is active exactly when isRunning is true, and no interval *)
(* other than the engine's own is live.                                    *)
C35_ScheduleIffRunning ==
    /\ ScheduleActive <=> state.isRunning
    /\ live \subseteq {intervalId}

\* a page reloaded on a record that is still running has its schedule
C35_Witness ==
    /\ lastOp = "construct"
    /\ state.isRunning
    /\ stored # <<>>
    /\ stored[1].remainingMs > state.remainingMs
    /\ ScheduleActive

----------------------------------------------------------------------------
(* A tick that finds the timer paused *)

SubscribePauser == subscribe("onStateChange", "pauser")

UnsubscribePauser == unsubscribe("onStateChange", "pauser")

NextStray ==
    \/ SubscribePauser
    \/ UnsubscribePauser
    \/ Start
    \/ Pause
    \/ Tick

SpecStray == InitOpened /\ [][NextStray]_vars

(* C36: a tick that fires while isRunning is false changes no field of the *)
(* state, writes nothing to storage, emits no event and cancels the        *)
(* schedule, leaving no interval to fire a second one.                     *)
C36_StrayTickOnlyCancels ==
    [][ (Tick /\ ~state.isRunning) =>
          /\ state' = state
          /\ stored' = stored
          /\ events' = <<>>
          /\ intervalId' = Null
          /\ live' = {}
      ]_vars

\* the tick of a schedule set by a start() that a subscriber had paused
C36_Witness ==
    /\ lastOp = "tick"
    /\ events = <<>>
    /\ ~state.isRunning
    /\ PauserSubscribed
    /\ stored # <<>>
    /\ ~stored[1].isRunning
    /\ live = {}
    /\ intervalId = Null

----------------------------------------------------------------------------
(* Reloading an expired record *)

(* C37: a load does not write the persisted record, and the load of a      *)
(* running record that has expired returns the record's completedSessions  *)
(* plus one for a work record and the record's count for a break record,   *)
(* on every reload, however many came before it.                           *)
C37_ReloadCountsPhaseOnce ==
    [][ Reload =>
          /\ stored' = stored
          /\ \A i \in DOMAIN stored :
                Expired(stored[i], now) =>
                    state'.completedSessions =
                        stored[i].completedSessions
                          + (IF stored[i].mode = "work" THEN 1 ELSE 0)
      ]_vars

\* a page loaded from an expired work record that already counted a session
C37_Witness ==
    /\ lastOp = "construct"
    /\ Len(stored) = 1
    /\ Expired(stored[1], now)
    /\ stored[1].mode = "work"
    /\ stored[1].completedSessions = 1
    /\ state.completedSessions = 2
    /\ state.mode = "break"

----------------------------------------------------------------------------
(* The remaining time and the full duration *)

(* C38: in every state reached from the default state by engine operations *)
(* and by reloads after a non-negative elapsed time, remainingMs is at     *)
(* most the full duration of the current mode.                             *)
C38_RemainingWithinFull == state.remainingMs <= FullMs(state, state.mode)


\* a page reloaded part of the way through a running break
C38_Witness ==
    /\ lastOp = "construct"
    /\ state.mode = "break"
    /\ state.isRunning
    /\ stored # <<>>
    /\ state.remainingMs < stored[1].remainingMs
    /\ 0 < state.remainingMs
    /\ state.remainingMs < FullMs(state, "break")

----------------------------------------------------------------------------
(* Reconciliation and the time remaining *)

(* C39: for every persisted running record and every value of the wall     *)
(* clock at load time, a clock earlier than the record's lastTickAt        *)
(* included, the remainingMs a load returns is not greater than the        *)
(* record's remainingMs unless the load applied a phase transition.        *)
C39_LoadNeverAddsTime ==
    [][ Reload =>
          \A i \in DOMAIN stored :
              (Flag(stored[i], "isRunning") /\ Truthy(Num(stored[i], "lastTickAt"))) =>
                  \/ state'.remainingMs <= stored[i].remainingMs
                  \/ state'.mode # stored[i].mode
      ]_vars

----------------------------------------------------------------------------
(* StorageManager: the task list between the page and the backend *)

\* the task lists the page saves: tasks with distinct ids
TaskLists ==
    {b \in Bodies : \A i, j \in DOMAIN b : b[i].id = b[j].id => i = j}

\* how the PUT of saveAll ends: the server commits the body, the server
\* answers an error after its rollback, or fetch rejects
PutOutcomes == {"committed", "rejected", "unreachable"}

\* how the GET of loadAll ends: res.ok, or a response that is not ok or a
\* fetch that rejects
GetOutcomes == {"ok", "failed"}

\* the arrays GET /api/todos can answer for table rs: one task per row, rows
\* with equal created_at in either order
Listings(rs) ==
    {l \in [1..Cardinality(DOMAIN rs) -> [id : DOMAIN rs, text : Texts]] :
        /\ \A i, j \in DOMAIN l : l[i].id = l[j].id => i = j
        /\ \A i \in DOMAIN l : l[i].text = rs[l[i].id]}

\* saveAll('todo', items): the PUT, whose failure and whose status are both
\* ignored, then localStorage.setItem
saveAll(items, outcome) ==
    /\ rows' = (IF outcome = "committed" THEN Collection(items) ELSE rows)
    /\ client' = [client EXCEPT
                    !.local = <<items>>,
                    !.saved = <<items>>,
                    !.call = "saveAll"]
    /\ UNCHANGED <<state, stored, intervalId, live, now, events, lastOp,
                   clockSteps, callbacks, storageFull, puts, seen, dropped>>

SaveAll ==
    \E items \in TaskLists, outcome \in PutOutcomes : saveAll(items, outcome)

\* loadAll('todo'): the body of the GET when res.ok, the local copy (or []
\* when the key is absent) otherwise
loadAll(outcome, listing) ==
    /\ seen' = (IF outcome = "ok" THEN rows ELSE seen)
    /\ client' = [client EXCEPT
                    !.loaded = IF outcome = "ok" THEN listing
                               ELSE IF client.local = <<>> THEN <<>>
                               ELSE client.local[1],
                    !.call = "loadAll"]
    /\ UNCHANGED <<state, stored, intervalId, live, now, events, lastOp,
                   clockSteps, callbacks, storageFull, rows, puts, dropped>>

LoadAll ==
    \E outcome \in GetOutcomes, listing \in Listings(rows) :
        loadAll(outcome, listing)

NextClient ==
    \/ SaveAll
    \/ LoadAll

SpecClient == Init /\ [][NextClient]_vars

(* C40: after saveAll('todo', items) has resolved, a loadAll('todo') with  *)
(* no other save in between returns items, whichever of the PUT and the    *)
(* GET succeeded or failed.                                                *)
C40_ReadYourWrites ==
    (client.call = "loadAll" /\ client.saved # <<>>) =>
        client.loaded = client.saved[1]

====
